---- MODULE Spec2Model ----
(***************************************************************************)
(* A model of WebTorrentService (src/lib/webtorrent-service.ts, kept as    *)
(* src/unnamed/part_001): the download lifecycle manager that owns the     *)
(* engine client, classifies every torrent's status, keeps the download    *)
(* history and emits lifecycle events.                                     *)
(*                                                                         *)
(* The WebTorrent engine is an external library.  It is modelled by what   *)
(* the service reads from it (client.torrents, client.get, the ready /     *)
(* done / paused flags, numPeers, downloadSpeed, uploadSpeed) and by the   *)
(* notifications it delivers (the ontorrent callback of client.add, the    *)
(* 'done' and 'error' events, the callback of client.remove).              *)
(*                                                                         *)
(* Fields of Torrent and HistoryItem that no handler branches on (itemId,  *)
(* magnetURI, name / customName, size, progress, downloaded,               *)
(* timeRemaining) are left out of the records; an identifier is kept as    *)
(* the infoHash the engine resolves it to.                                 *)
(*                                                                         *)
(* WebTorrentProvider (src/contexts/WebTorrentContext.tsx) is modelled by  *)
(* the effect it runs on mount: initializeClient and the subscribers that  *)
(* keep its list of transfers.                                             *)
(***************************************************************************)
EXTENDS Integers, Sequences, FiniteSets, TLC

VARIABLES
    client,       \* this.client # null
    torrents,     \* this.client.torrents, in the engine's order
    history,      \* this.history, most recent first
    pendingRemove,\* client.remove callbacks of removeTorrent not yet delivered
    now,          \* Date.now()
    emitted,      \* the events the last handler emitted, in order
    progressOut,  \* the TorrentProgress snapshots the last handler computed
    returned,     \* the last handler: its name, its argument, its result
    storage,      \* localStorage's item under HISTORY_STORAGE_KEY
    storageFull,  \* localStorage.setItem throws (quota reached, storage denied)
    moduleLoaded, \* ActualWebTorrent # null: the dynamic import has resolved
    waiting,      \* the locators of the addTorrent calls waiting in getClient
    addCalls,     \* per target, the addTorrent promises neither resolved nor rejected
    servers,      \* the stream servers listening, per infoHash
    files,        \* the byte lengths of the files of each content, in order
    historyKind,  \* what this.history is: "array", or "null", "object", "string"
                  \* (the operations of NextLoad alone are modelled on the latter)
    callers,      \* the initializeClient calls waiting in getClient
    clients,      \* the engine clients constructed so far
    orphans,      \* the torrents of the clients this.client no longer refers to
    progressInterval, \* this.progressInterval: the handle of a timer, 0 for null
    timers,       \* the handles of the interval timers that are running
    listed,       \* the torrentIds in the torrents list of WebTorrentProvider
    mounted       \* WebTorrentProvider is mounted: its subscribers are registered

vars == <<client, torrents, history, pendingRemove, now, emitted, progressOut,
          returned, storage, storageFull, servers, files, moduleLoaded, waiting,
          addCalls, historyKind, callers, clients, orphans, progressInterval,
          timers, listed, mounted>>

----------------------------------------------------------------------------
(* Program constants *)

STALL_TIMEOUT == 30000

NO_PEERS_TIMEOUT == 60000

NoPeersMessage == "No peers found after 60 seconds."

----------------------------------------------------------------------------
(* Bounds of the model *)

\* Date.now() at the first step.  Date.now() counts milliseconds since 1970,
\* so it is far above both timeouts; any start above NO_PEERS_TIMEOUT behaves
\* the same.
StartTime == 100000

\* The most client.remove callbacks of removeTorrent in flight per infoHash.
MaxPending == 1

\* The most peers the engine reports for a torrent.
MaxPeers == 2

\* The most stream servers listening per infoHash.
MaxServers == 2

\* The most files of a content.
MaxFiles == 3

\* The most addTorrent promises left unsettled per target.
MaxCalls == 2

\* The milliseconds by which the clock advances at a time: just over
\* STALL_TIMEOUT, so that two advances pass NO_PEERS_TIMEOUT.
ClockStep == 30001

\* The most advances of the clock.
MaxAdvances == 3

\* The most initializeClient calls that wait in getClient at a time.
MaxCallers == 2

----------------------------------------------------------------------------
(* Identifiers *)

\* The magnet links the callers add: two links of the same content, which
\* differ in their trackers.
Magnets == {"magnet:A?tr=1", "magnet:A?tr=2"}

InfoHashes == {"hashA", "hashB"}

\* What client.get / client.add resolve an identifier to: a magnet link to the
\* infoHash in it, an infoHash to itself.
InfoHashOf(id) ==
    CASE id \in {"magnet:A?tr=1", "magnet:A?tr=2", "hashA"} -> "hashA"
      [] id \in {"magnet:B", "hashB"} -> "hashB"
      [] OTHER -> ""

\* What an addTorrent promise is kept by: the infoHash of its locator, "" for
\* a locator without one.
Targets == InfoHashes \cup {""}

\* client.get(id): the position in client.torrents of the torrent with the
\* identifier's infoHash, 0 when there is none (or no client) and for an
\* identifier that does not parse.
Get(ts, id) ==
    IF InfoHashOf(id) # "" /\ \E i \in 1..Len(ts) : ts[i].infoHash = InfoHashOf(id)
    THEN CHOOSE i \in 1..Len(ts) :
            /\ ts[i].infoHash = InfoHashOf(id)
            /\ \A j \in 1..(i - 1) : ts[j].infoHash # InfoHashOf(id)
    ELSE 0

\* Array.prototype.splice(i, 1).
RemoveAt(s, i) == SubSeq(s, 1, i - 1) \o SubSeq(s, i + 1, Len(s))

\* The torrent object client.add returns: no metadata yet, no peers, and none
\* of the service's own fields set (0 and "" stand for undefined).
NewTorrent(magnetURI) ==
    [ infoHash         |-> InfoHashOf(magnetURI),
      ready            |-> FALSE,
      done             |-> FALSE,
      paused           |-> FALSE,
      numPeers         |-> 0,
      downloadSpeed    |-> 0,
      uploadSpeed      |-> 0,
      addedDate        |-> 0,
      lastProgressTime |-> 0,
      statusForHistory |-> "",
      noPeersReason    |-> "" ]

Event(type, id) == [type |-> type, id |-> id]

Returned(op, arg, val) == [op |-> op, arg |-> arg, val |-> val]

----------------------------------------------------------------------------
(* History *)

\* this.history.findIndex(item => item.infoHash === infoHash), 1-based;
\* 0 stands for -1.
FindIndex(h, infoHash) ==
    IF \E i \in 1..Len(h) : h[i].infoHash = infoHash
    THEN CHOOSE i \in 1..Len(h) :
            /\ h[i].infoHash = infoHash
            /\ \A j \in 1..(i - 1) : h[j].infoHash # infoHash
    ELSE 0

\* A plausible slip: every call inserts a record.
updateHistoryAlwaysInsert(h, torrent, status, lastError, t) ==
    LET newStatus == IF status # "" THEN status
                     ELSE IF torrent.statusForHistory # "" THEN torrent.statusForHistory
                     ELSE "active"
    IN  << [ infoHash      |-> torrent.infoHash,
             addedDate     |-> IF torrent.addedDate # 0 THEN torrent.addedDate ELSE t,
             completedDate |-> 0,
             status        |-> newStatus,
             lastError     |-> lastError ] >> \o h

\* A plausible slip: every update of a record stamps its completedDate.
updateHistoryStampsAlways(h, torrent, status, lastError, t) ==
    LET existingIndex == FindIndex(h, torrent.infoHash)
        newStatus == IF status # "" THEN status
                     ELSE IF torrent.statusForHistory # "" THEN torrent.statusForHistory
                     ELSE "active"
    IN  IF existingIndex > 0
        THEN [h EXCEPT ![existingIndex] =
                [@ EXCEPT !.status = newStatus,
                          !.completedDate = t,
                          !.lastError = IF lastError # "" THEN lastError ELSE @]]
        ELSE << [ infoHash      |-> torrent.infoHash,
                  addedDate     |-> IF torrent.addedDate # 0 THEN torrent.addedDate ELSE t,
                  completedDate |-> 0,
                  status        |-> newStatus,
                  lastError     |-> lastError ] >> \o h

\* A plausible slip: a record marked removed keeps its status.
updateHistoryRemovedIsFinal(h, torrent, status, lastError, t) ==
    LET existingIndex == FindIndex(h, torrent.infoHash)
        newStatus == IF status # "" THEN status
                     ELSE IF torrent.statusForHistory # "" THEN torrent.statusForHistory
                     ELSE "active"
    IN  IF existingIndex > 0
        THEN [h EXCEPT ![existingIndex] =
                [@ EXCEPT !.status = IF @ = "removed" THEN @ ELSE newStatus,
                          !.completedDate = IF newStatus = "completed" THEN t ELSE @,
                          !.lastError = IF lastError # "" THEN lastError ELSE @]]
        ELSE << [ infoHash      |-> torrent.infoHash,
                  addedDate     |-> IF torrent.addedDate # 0 THEN torrent.addedDate ELSE t,
                  completedDate |-> 0,
                  status        |-> newStatus,
                  lastError     |-> lastError ] >> \o h

\* A plausible slip: the update branch takes lastError as given, so an upsert
\* without a message erases the one on record.
updateHistoryOverwritesLastError(h, torrent, status, lastError, t) ==
    LET existingIndex == FindIndex(h, torrent.infoHash)
        newStatus == IF status # "" THEN status
                     ELSE IF torrent.statusForHistory # "" THEN torrent.statusForHistory
                     ELSE "active"
    IN  IF existingIndex > 0
        THEN [h EXCEPT ![existingIndex] =
                [@ EXCEPT !.status = newStatus,
                          !.completedDate = IF newStatus = "completed" THEN t ELSE @,
                          !.lastError = lastError]]
        ELSE << [ infoHash      |-> torrent.infoHash,
                  addedDate     |-> IF torrent.addedDate # 0 THEN torrent.addedDate ELSE t,
                  completedDate |-> 0,
                  status        |-> newStatus,
                  lastError     |-> lastError ] >> \o h

\* updateHistory(torrent, status, lastError) at time t: the new this.history.
\* "" stands for an argument left out; completedDate 0 for undefined.
updateHistory(h, torrent, status, lastError, t) ==
    LET existingIndex == FindIndex(h, torrent.infoHash)
        newStatus == IF status # "" THEN status
                     ELSE IF torrent.statusForHistory # "" THEN torrent.statusForHistory
                     ELSE "active"
    IN  IF existingIndex > 0
        THEN [h EXCEPT ![existingIndex] =
                [@ EXCEPT !.status = newStatus,
                          !.completedDate = IF newStatus = "completed" THEN t ELSE @,
                          !.lastError = IF lastError # "" THEN lastError ELSE @]]
        ELSE << [ infoHash      |-> torrent.infoHash,
                  addedDate     |-> IF torrent.addedDate # 0 THEN torrent.addedDate ELSE t,
                  completedDate |-> 0,
                  status        |-> newStatus,
                  lastError     |-> lastError ] >> \o h

\* What localStorage holds under HISTORY_STORAGE_KEY: nothing ("absent"), the
\* JSON text of an array of records ("array"), a text JSON.parse rejects
\* ("unparsable"), or the JSON text of null, of an object or of a string.
Blob(kind, items) == [kind |-> kind, items |-> items]

\* saveHistory() of the history h, inside a handler that goes on to emit the
\* events after: setItem writes the JSON text of h and 'historyUpdated' is
\* emitted, or setItem throws, the catch logs it, and nothing is written or
\* emitted.
saveHistory(h, after) ==
    IF storageFull
    THEN /\ storage' = storage
         /\ emitted' = after
    ELSE /\ storage' = Blob("array", h)
         /\ emitted' = << Event("historyUpdated", "") >> \o after

\* A plausible slip: loadHistory without its try / catch.
loadHistoryNoCatch(blob) ==
    CASE blob.kind = "array" ->
             [history |-> blob.items, kind |-> "array", threw |-> FALSE]
      [] blob.kind = "absent" ->
             [history |-> << >>, kind |-> "array", threw |-> FALSE]
      [] blob.kind \in {"null", "object", "string"} ->
             [history |-> << >>, kind |-> blob.kind, threw |-> FALSE]
      [] OTHER -> [history |-> << >>, kind |-> "array", threw |-> TRUE]

\* loadHistory() on the stored text: the value it leaves in this.history (its
\* records when it is a list, and what it is otherwise: JSON.parse returns
\* whatever the text denotes and the value is not examined) and whether it
\* threw to the constructor.
loadHistory(blob) ==
    CASE blob.kind = "array" ->
             [history |-> blob.items, kind |-> "array", threw |-> FALSE]
      [] blob.kind = "absent" ->
             [history |-> << >>, kind |-> "array", threw |-> FALSE]
      [] blob.kind \in {"null", "object", "string"} ->
             [history |-> << >>, kind |-> blob.kind, threw |-> FALSE]
      [] OTHER -> [history |-> << >>, kind |-> "array", threw |-> FALSE]

\* [...this.history], the result of getDownloadHistory(): the records of a
\* list, the characters of a string, a TypeError on a value that cannot be
\* iterated.
getDownloadHistory(kind) ==
    CASE kind = "array" -> "records"
      [] kind = "string" -> "characters"
      [] OTHER -> "threw"

----------------------------------------------------------------------------
(* The status classifier *)

\* The status from the engine's flags alone.
classify(torrent) ==
    IF torrent.ready
    THEN IF torrent.done
         THEN IF torrent.uploadSpeed > 0 THEN "seeding" ELSE "done"
         ELSE IF torrent.paused THEN "paused" ELSE "downloading"
    ELSE "metadata"

\* A plausible slip: stalled from the timeout on, not after it.
stallCheckAtTimeout(torrent, status, t) ==
    IF status = "downloading" /\ torrent.downloadSpeed = 0 /\ torrent.numPeers > 0
    THEN IF t - (IF torrent.lastProgressTime # 0 THEN torrent.lastProgressTime ELSE t)
              >= STALL_TIMEOUT
         THEN "stalled"
         ELSE status
    ELSE status

\* The stall check: the status after it.  lastProgressTime 0 (undefined)
\* reads as t.
stallCheck(torrent, status, t) ==
    IF status = "downloading" /\ torrent.downloadSpeed = 0 /\ torrent.numPeers > 0
    THEN IF t - (IF torrent.lastProgressTime # 0 THEN torrent.lastProgressTime ELSE t)
              > STALL_TIMEOUT
         THEN "stalled"
         ELSE status
    ELSE status

\* The stall check: the torrent's lastProgressTime after it.
progressTime(torrent, status, t) ==
    IF status = "downloading" /\ torrent.downloadSpeed = 0 /\ torrent.numPeers > 0
    THEN torrent.lastProgressTime
    ELSE IF status = "downloading" THEN t ELSE torrent.lastProgressTime

\* A plausible slip: the no-peers check without its exemption of finished
\* torrents.
noPeersCheckAnyStatus(torrent, status, t) ==
    /\ torrent.numPeers = 0
    /\ t - torrent.addedDate > NO_PEERS_TIMEOUT

\* A plausible slip: no peers from the timeout on, not after it.
noPeersCheckAtTimeout(torrent, status, t) ==
    /\ status # "done"
    /\ status # "seeding"
    /\ torrent.numPeers = 0
    /\ t - torrent.addedDate >= NO_PEERS_TIMEOUT

\* A plausible slip: a torrent once without peers stays so, by its
\* noPeersReason.
noPeersCheckSticky(torrent, status, t) ==
    /\ status # "done"
    /\ status # "seeding"
    /\ \/ torrent.noPeersReason # ""
       \/ /\ torrent.numPeers = 0
          /\ t - torrent.addedDate > NO_PEERS_TIMEOUT

\* The no-peers check, on the status the stall check left.  addedDate 0
\* (undefined) reads as time 0.
noPeersCheck(torrent, status, t) ==
    /\ status # "done"
    /\ status # "seeding"
    /\ torrent.numPeers = 0
    /\ t - torrent.addedDate > NO_PEERS_TIMEOUT

\* getTorrentProgress(torrent) at time t: the snapshot it returns and the
\* torrent as it leaves it.
getTorrentProgress(torrent, t) ==
    LET s1 == classify(torrent)
        s2 == stallCheck(torrent, s1, t)
        np == noPeersCheck(torrent, s2, t)
        after == [torrent EXCEPT
                    !.lastProgressTime = progressTime(torrent, s1, t),
                    !.noPeersReason = IF np THEN NoPeersMessage ELSE @]
    IN  [ progress |-> [ torrentId     |-> torrent.infoHash,
                         downloadSpeed |-> torrent.downloadSpeed,
                         uploadSpeed   |-> torrent.uploadSpeed,
                         peers         |-> torrent.numPeers,
                         addedDate     |-> torrent.addedDate,
                         status        |-> IF np THEN "no_peers" ELSE s2,
                         noPeersReason |-> after.noPeersReason ],
          torrent  |-> after ]

\* torrents.map(t => getTorrentProgress(t)): the snapshots, in order.
ProgressOf(ts, t) == [i \in 1..Len(ts) |-> getTorrentProgress(ts[i], t).progress]

\* The torrents as the calls of getTorrentProgress leave them.
PolledTorrents(ts, t) == [i \in 1..Len(ts) |-> getTorrentProgress(ts[i], t).torrent]

----------------------------------------------------------------------------
(* Operations of the service *)

\* A plausible slip: startProgressEmitter without its clearInterval.
startProgressEmitterNoClear(handle) ==
    /\ timers' = timers \cup {handle}
    /\ progressInterval' = handle

\* startProgressEmitter(), setInterval returning the given handle: the timer
\* this.progressInterval refers to is cleared, the new one runs and is kept
\* in this.progressInterval.
startProgressEmitter(handle) ==
    /\ timers' = (timers \ {progressInterval}) \cup {handle}
    /\ progressInterval' = handle

\* The end of getClient(): `this.client = new ActualWebTorrent()` and
\* startProgressEmitter().  The torrents of the client this.client referred
\* to stay in that client, which the service no longer reaches.
newClient ==
    /\ client' = TRUE
    /\ clients' = clients + 1
    /\ orphans' = orphans \o torrents
    /\ startProgressEmitter(clients + 1)

\* getClient() when it does not wait: this.client is returned, or made when
\* there is none and the engine module is loaded.
getClient ==
    IF client
    THEN UNCHANGED <<client, clients, orphans, progressInterval, timers>>
    ELSE newClient

\* A plausible slip: addTorrent without the client.get check.
AddTorrentNoGet(magnetURI) ==
    /\ client \/ moduleLoaded
    /\ getClient
    /\ addCalls[InfoHashOf(magnetURI)] < MaxCalls
    /\ torrents' = Append(torrents, NewTorrent(magnetURI))
    /\ addCalls' = [addCalls EXCEPT ![InfoHashOf(magnetURI)] = @ + 1]
    /\ returned' = Returned("addTorrent", InfoHashOf(magnetURI), "pending")
    /\ emitted' = << >>
    /\ progressOut' = << >>
    /\ UNCHANGED <<history, pendingRemove, now, storage, servers, files,
                   storageFull, historyKind, callers, listed, mounted,
                   moduleLoaded, waiting>>

\* addTorrent(magnetURI) from the return of getClient(), with a client that
\* holds the torrents held, to the return of client.add: a torrent the
\* client already holds gives null; otherwise the
\* torrent joins client.torrents without metadata and the promise stays
\* pending until the engine's notification (EngineReady, EngineError).
AddAfterGetClient(magnetURI, held) ==
    /\ IF Get(held, magnetURI) # 0
       THEN /\ returned' = Returned("addTorrent", InfoHashOf(magnetURI), "null")
            /\ torrents' = held
            /\ UNCHANGED addCalls
       ELSE /\ addCalls[InfoHashOf(magnetURI)] < MaxCalls
            /\ torrents' = Append(held, NewTorrent(magnetURI))
            /\ addCalls' = [addCalls EXCEPT ![InfoHashOf(magnetURI)] = @ + 1]
            /\ returned' = Returned("addTorrent", InfoHashOf(magnetURI), "pending")
    /\ emitted' = << >>
    /\ progressOut' = << >>
    /\ UNCHANGED <<history, pendingRemove, now, storage, servers, files,
                   storageFull, moduleLoaded, historyKind, callers, listed,
                   mounted>>

\* addTorrent(magnetURI), up to its first suspension.  getClient() returns
\* the client, creating it when there is none and the engine module is
\* loaded, and the call goes on to client.add; without client and module the
\* call waits in getClient's polling loop (one such call at a time).
AddTorrent(magnetURI) ==
    IF client \/ moduleLoaded
    THEN /\ getClient
         /\ AddAfterGetClient(magnetURI, torrents)
         /\ UNCHANGED waiting
    ELSE /\ waiting = {}
         /\ waiting' = {magnetURI}
         /\ returned' = Returned("addTorrent", InfoHashOf(magnetURI), "waiting")
         /\ emitted' = << >>
         /\ progressOut' = << >>
         /\ UNCHANGED <<client, torrents, history, pendingRemove, now,
                        storage, servers, files, storageFull, moduleLoaded,
                        addCalls, historyKind, callers, listed, mounted,
                        clients, orphans, progressInterval, timers>>

\* The polling loop of getClient, in the waiting addTorrent call, finds the
\* module loaded: the call makes a client, whether or not an earlier call has
\* made one since, and goes on with it.
AddTorrentResumes(magnetURI) ==
    /\ magnetURI \in waiting
    /\ moduleLoaded
    /\ waiting' = waiting \ {magnetURI}
    /\ newClient
    /\ AddAfterGetClient(magnetURI, << >>)

\* initializeClient() of WebTorrentProvider from the return of getClient(),
\* with a client that holds the torrents held: the list of the provider is
\* set to getAllTorrentsProgress() and its history to getDownloadHistory(),
\* whose exception nothing catches.
InitializeClientAfterGetClient(held) ==
    /\ progressOut' = ProgressOf(held, now)
    /\ torrents' = PolledTorrents(held, now)
    /\ listed' = {held[i].infoHash : i \in 1..Len(held)}
    /\ emitted' = << >>
    /\ returned' = Returned("initializeClient", "",
                           IF getDownloadHistory(historyKind) = "threw"
                           THEN "threw" ELSE "ready")
    /\ UNCHANGED <<history, pendingRemove, now, storage, servers, files,
                   storageFull, moduleLoaded, waiting, addCalls, historyKind>>

\* The effect WebTorrentProvider runs when it mounts: it starts
\* initializeClient() and registers its subscribers.  initializeClient, up to
\* its first suspension: with a client, or with the engine module loaded,
\* getClient() returns at once; otherwise the call waits in getClient's
\* polling loop, next to the calls already waiting there.
InitializeClient ==
    IF client \/ moduleLoaded
    THEN /\ getClient
         /\ InitializeClientAfterGetClient(torrents)
         /\ UNCHANGED callers
         /\ mounted' = TRUE
    ELSE /\ callers < MaxCallers
         /\ callers' = callers + 1
         /\ mounted' = TRUE
         /\ returned' = Returned("initializeClient", "", "waiting")
         /\ emitted' = << >>
         /\ progressOut' = << >>
         /\ UNCHANGED <<client, torrents, history, pendingRemove, now,
                        storage, servers, files, storageFull, moduleLoaded,
                        waiting, addCalls, historyKind, listed, clients,
                        orphans, progressInterval, timers>>

\* The polling loop of getClient, in a waiting initializeClient call, finds
\* the module loaded: the call makes a client, whether or not an earlier call
\* has made one since, and goes on.
InitializeClientResumes ==
    /\ callers > 0
    /\ moduleLoaded
    /\ callers' = callers - 1
    /\ UNCHANGED mounted
    /\ newClient
    /\ InitializeClientAfterGetClient(<< >>)

\* The dynamic import of the engine module resolves.
ModuleLoads ==
    /\ ~moduleLoaded
    /\ moduleLoaded' = TRUE
    /\ returned' = Returned("import", "", "")
    /\ emitted' = << >>
    /\ progressOut' = << >>
    /\ UNCHANGED <<client, torrents, history, pendingRemove, now, storage,
                   servers, files, storageFull, historyKind, callers, listed,
                   mounted, clients, orphans, progressInterval, timers,
                   waiting, addCalls>>

\* A plausible slip: the ontorrent callback without its 'added' event.
EngineReadyNoEvent(i) ==
    /\ i \in 1..Len(torrents)
    /\ ~torrents[i].ready
    /\ torrents[i].infoHash # ""
    /\ addCalls' = [addCalls EXCEPT ![torrents[i].infoHash] = @ - 1]
    /\ LET enhancedTorrent == [torrents[i] EXCEPT !.ready = TRUE,
                                                  !.addedDate = now,
                                                  !.lastProgressTime = now]
       IN  /\ torrents' = [torrents EXCEPT ![i] = enhancedTorrent]
           /\ history' = updateHistory(history, enhancedTorrent, "active", "", now)
           /\ saveHistory(history', << >>)
           /\ returned' = Returned("addTorrent.resolve", enhancedTorrent.infoHash,
                                   enhancedTorrent.infoHash)
    /\ progressOut' = << >>
    /\ UNCHANGED <<client, pendingRemove, now, servers, files, storageFull,
                   historyKind, callers, listed, mounted, clients, orphans,
                   progressInterval, timers, moduleLoaded, waiting>>

\* The engine has the metadata of torrent i: it sets ready and calls the
\* ontorrent callback of client.add, which stamps the torrent, records it as
\* active, emits 'added' and resolves the promise of addTorrent.
EngineReady(i) ==
    /\ i \in 1..Len(torrents)
    /\ ~torrents[i].ready
    /\ torrents[i].infoHash # ""
    /\ addCalls' = [addCalls EXCEPT ![torrents[i].infoHash] = @ - 1]
    /\ LET enhancedTorrent == [torrents[i] EXCEPT !.ready = TRUE,
                                                  !.addedDate = now,
                                                  !.lastProgressTime = now]
       IN  /\ torrents' = [torrents EXCEPT ![i] = enhancedTorrent]
           /\ history' = updateHistory(history, enhancedTorrent, "active", "", now)
           /\ saveHistory(history', << Event("added", enhancedTorrent.infoHash) >>)
           /\ returned' = Returned("addTorrent.resolve", enhancedTorrent.infoHash,
                                   enhancedTorrent.infoHash)
    /\ progressOut' = << >>
    /\ UNCHANGED <<client, pendingRemove, now, servers, files, storageFull,
                   historyKind, callers, listed, mounted, clients, orphans,
                   progressInterval, timers, moduleLoaded, waiting>>

\* The engine reports torrent i complete: the 'done' handler.
EngineDone(i) ==
    /\ i \in 1..Len(torrents)
    /\ torrents[i].ready
    /\ ~torrents[i].done
    /\ LET enhancedTorrent == [torrents[i] EXCEPT !.done = TRUE,
                                                  !.statusForHistory = "completed"]
       IN  /\ torrents' = [torrents EXCEPT ![i] = enhancedTorrent]
           /\ history' = updateHistory(history, enhancedTorrent, "completed", "", now)
           /\ saveHistory(history', << Event("done", enhancedTorrent.infoHash) >>)
           /\ returned' = Returned("torrent.done", enhancedTorrent.infoHash, "")
    /\ progressOut' = << >>
    /\ UNCHANGED <<client, pendingRemove, now, servers, files, storageFull,
                   historyKind, callers, listed, mounted, clients, orphans,
                   progressInterval, timers, moduleLoaded, waiting, addCalls>>

ErrorMessages == {"disk failure"}

\* A plausible slip: the recording 'error' listener is attached when the
\* torrent is added, not when its metadata arrives.
EngineErrorAlwaysRecords(i, message, listenerRuns) ==
    /\ i \in 1..Len(torrents)
    /\ LET torrent == torrents[i]
       IN  /\ torrents' = RemoveAt(torrents, i)
           /\ IF listenerRuns
              THEN /\ history' = updateHistory(history,
                                    [torrent EXCEPT !.statusForHistory = "error"],
                                    "error", message, now)
                   /\ saveHistory(history', << Event("error", torrent.infoHash) >>)
              ELSE /\ UNCHANGED <<history, storage>>
                   /\ emitted' = << >>
           /\ returned' = Returned("torrent.error", torrent.infoHash,
                                   IF torrent.ready THEN "" ELSE "rejected")
    /\ addCalls' = IF torrents[i].ready THEN addCalls
                   ELSE [addCalls EXCEPT ![torrents[i].infoHash] = @ - 1]
    /\ progressOut' = << >>
    /\ UNCHANGED <<client, pendingRemove, now, servers, files, storageFull,
                   historyKind, callers, listed, mounted, clients, orphans,
                   progressInterval, timers, moduleLoaded, waiting>>

\* The engine reports an error on torrent i.  The listener addTorrent attached
\* first (once) rejects the promise, a no-op once it is resolved, and removes
\* the torrent from the client.  The listener the ontorrent callback attached
\* runs after it, when the first one returned normally: client.remove throws
\* on a torrent the engine has already dropped, and whether the engine drops
\* an errored torrent before it notifies is the engine's choice (listenerRuns).
EngineError(i, message, listenerRuns) ==
    /\ i \in 1..Len(torrents)
    /\ LET torrent == torrents[i]
       IN  /\ torrents' = RemoveAt(torrents, i)
           /\ IF torrent.ready /\ listenerRuns
              THEN /\ history' = updateHistory(history,
                                    [torrent EXCEPT !.statusForHistory = "error"],
                                    "error", message, now)
                   /\ saveHistory(history', << Event("error", torrent.infoHash) >>)
              ELSE /\ UNCHANGED <<history, storage>>
                   /\ emitted' = << >>
           /\ returned' = Returned("torrent.error", torrent.infoHash,
                                   IF torrent.ready THEN "" ELSE "rejected")
    /\ addCalls' = IF torrents[i].ready THEN addCalls
                   ELSE [addCalls EXCEPT ![torrents[i].infoHash] = @ - 1]
    /\ progressOut' = << >>
    /\ UNCHANGED <<client, pendingRemove, now, servers, files, storageFull,
                   historyKind, callers, listed, mounted, clients, orphans,
                   progressInterval, timers, moduleLoaded, waiting>>

\* A plausible slip: pauseTorrent without the check of torrent.paused.
PauseTorrentNoCheck(id) ==
    /\ LET i == Get(torrents, id)
       IN  IF i # 0
           THEN LET torrent == [torrents[i] EXCEPT !.paused = TRUE,
                                                   !.statusForHistory = "paused"]
                IN  /\ torrents' = [torrents EXCEPT ![i] = torrent]
                    /\ history' = updateHistory(history, torrent, "", "", now)
                    /\ saveHistory(history', << >>)
           ELSE /\ UNCHANGED <<torrents, history, storage>>
                /\ emitted' = << >>
    /\ returned' = Returned("pauseTorrent", InfoHashOf(id), "")
    /\ progressOut' = << >>
    /\ UNCHANGED <<client, pendingRemove, now, servers, files, storageFull,
                   historyKind, callers, listed, mounted, clients, orphans,
                   progressInterval, timers, moduleLoaded, waiting, addCalls>>

\* pauseTorrent(id).
PauseTorrent(id) ==
    /\ LET i == Get(torrents, id)
       IN  IF i # 0 /\ ~torrents[i].paused
           THEN LET torrent == [torrents[i] EXCEPT !.paused = TRUE,
                                                   !.statusForHistory = "paused"]
                IN  /\ torrents' = [torrents EXCEPT ![i] = torrent]
                    /\ history' = updateHistory(history, torrent, "", "", now)
                    /\ saveHistory(history', << >>)
           ELSE /\ UNCHANGED <<torrents, history, storage>>
                /\ emitted' = << >>
    /\ returned' = Returned("pauseTorrent", InfoHashOf(id), "")
    /\ progressOut' = << >>
    /\ UNCHANGED <<client, pendingRemove, now, servers, files, storageFull,
                   historyKind, callers, listed, mounted, clients, orphans,
                   progressInterval, timers, moduleLoaded, waiting, addCalls>>

\* resumeTorrent(id).
ResumeTorrent(id) ==
    /\ LET i == Get(torrents, id)
       IN  IF i # 0 /\ torrents[i].paused
           THEN LET torrent == [torrents[i] EXCEPT !.paused = FALSE,
                                                   !.statusForHistory = "active"]
                IN  /\ torrents' = [torrents EXCEPT ![i] = torrent]
                    /\ history' = updateHistory(history, torrent, "", "", now)
                    /\ saveHistory(history', << >>)
           ELSE /\ UNCHANGED <<torrents, history, storage>>
                /\ emitted' = << >>
    /\ returned' = Returned("resumeTorrent", InfoHashOf(id), "")
    /\ progressOut' = << >>
    /\ UNCHANGED <<client, pendingRemove, now, servers, files, storageFull,
                   historyKind, callers, listed, mounted, clients, orphans,
                   progressInterval, timers, moduleLoaded, waiting, addCalls>>

\* A plausible slip: removeTorrent marks the record removed before it looks
\* for the torrent.
RemoveTorrentRecordsFirst(id) ==
    /\ client \/ moduleLoaded
    /\ getClient
    /\ LET i == Get(torrents, id)
       IN  /\ history' = updateHistory(history, NewTorrent(id), "removed", "", now)
           /\ saveHistory(history', << >>)
           /\ IF i # 0
              THEN /\ pendingRemove[torrents[i].infoHash] < MaxPending
                   /\ torrents' = RemoveAt(torrents, i)
                   /\ pendingRemove' = [pendingRemove EXCEPT ![torrents[i].infoHash] = @ + 1]
              ELSE UNCHANGED <<torrents, pendingRemove>>
           /\ returned' = Returned("removeTorrent", InfoHashOf(id),
                                   IF i # 0 THEN "removing" ELSE "")
    /\ progressOut' = << >>
    /\ UNCHANGED <<now, servers, files, storageFull, historyKind, callers,
                   listed, mounted, moduleLoaded, waiting, addCalls>>

\* removeTorrent(id) from the return of getClient(), which creates the client
\* when there is none (a call made before the engine module is loaded goes on
\* once it is, with the fresh client a waiting call makes, which holds no
\* torrent), up to the return of client.remove: the record is marked
\* removed and the engine drops the torrent from client.torrents at once; the
\* callback of client.remove comes later (RemoveCallback).  The service keeps
\* no reference to the stream servers it made and closes none; whether the
\* engine closes them with the torrent is the engine's choice (closes).  The
\* result tells the two branches apart: "removing" when client.get found the
\* torrent.
RemoveTorrent(id) ==
    /\ client \/ moduleLoaded
    /\ getClient
    /\ LET i == Get(torrents, id)
       IN  IF i # 0
           THEN /\ pendingRemove[torrents[i].infoHash] < MaxPending
                /\ history' = updateHistory(history, torrents[i], "removed", "", now)
                /\ torrents' = RemoveAt(torrents, i)
                /\ pendingRemove' = [pendingRemove EXCEPT ![torrents[i].infoHash] = @ + 1]
                /\ saveHistory(history', << >>)
                /\ returned' = Returned("removeTorrent", InfoHashOf(id), "removing")
                /\ \E closes \in BOOLEAN :
                      servers' = IF closes
                                 THEN [servers EXCEPT ![torrents[i].infoHash] = << >>]
                                 ELSE servers
           ELSE /\ UNCHANGED <<torrents, history, pendingRemove, storage,
                               servers>>
                /\ emitted' = << >>
                /\ returned' = Returned("removeTorrent", InfoHashOf(id), "")
    /\ progressOut' = << >>
    /\ UNCHANGED <<now, files, storageFull, historyKind, callers, listed,
                   mounted, moduleLoaded, waiting, addCalls>>

RECURSIVE Delivered(_, _)
\* The torrentIds in the list of WebTorrentProvider after its subscribers
\* have received the events, in order: the 'progress' subscriber replaces the
\* entry of the id or appends one, the 'removed' subscriber filters the id
\* out.
Delivered(ids, events) ==
    IF events = << >>
    THEN ids
    ELSE Delivered(CASE Head(events).type = "progress" -> ids \cup {Head(events).id}
                     [] Head(events).type = "removed" -> ids \ {Head(events).id}
                     [] OTHER -> ids,
                   Tail(events))

\* The callback removeTorrent gave client.remove: 'removed' is emitted unless
\* the engine reports an error.
RemoveCallback(infoHash, err) ==
    /\ pendingRemove[infoHash] > 0
    /\ pendingRemove' = [pendingRemove EXCEPT ![infoHash] = @ - 1]
    /\ emitted' = IF err THEN << >> ELSE << Event("removed", infoHash) >>
    /\ returned' = Returned("removeTorrent.callback", infoHash, IF err THEN "error" ELSE "")
    /\ progressOut' = << >>
    /\ listed' = IF mounted THEN Delivered(listed, emitted') ELSE listed
    /\ UNCHANGED <<client, torrents, history, now, storage, servers, files,
                   storageFull, historyKind, callers, clients, orphans,
                   progressInterval, timers, moduleLoaded, waiting, addCalls,
                   mounted>>

\* clearHistory().
ClearHistory ==
    /\ history' = << >>
    /\ historyKind' = "array"
    /\ saveHistory(history', << >>)
    /\ returned' = Returned("clearHistory", "", "")
    /\ progressOut' = << >>
    /\ UNCHANGED <<client, torrents, pendingRemove, now, servers, files,
                   storageFull, moduleLoaded, waiting, addCalls, callers,
                   listed, mounted, clients, orphans, progressInterval,
                   timers>>

\* removeFromHistory(infoHash): this.history.filter, a TypeError on a value
\* that is not a list.
RemoveFromHistory(infoHash) ==
    /\ IF historyKind = "array"
       THEN /\ history' = SelectSeq(history, LAMBDA item : item.infoHash # infoHash)
            /\ saveHistory(history', << >>)
            /\ returned' = Returned("removeFromHistory", infoHash, "")
       ELSE /\ UNCHANGED <<history, storage>>
            /\ emitted' = << >>
            /\ returned' = Returned("removeFromHistory", infoHash, "threw")
    /\ progressOut' = << >>
    /\ UNCHANGED <<client, torrents, pendingRemove, now, servers, files,
                   storageFull, moduleLoaded, waiting, addCalls, historyKind,
                   callers, listed, mounted, clients, orphans,
                   progressInterval, timers>>

\* getDownloadHistory().
GetDownloadHistory ==
    /\ returned' = Returned("getDownloadHistory", "", getDownloadHistory(historyKind))
    /\ emitted' = << >>
    /\ progressOut' = << >>
    /\ UNCHANGED <<client, torrents, history, pendingRemove, now, storage,
                   servers, files, storageFull, moduleLoaded, waiting,
                   addCalls, historyKind, callers, listed, mounted, clients,
                   orphans, progressInterval, timers>>

\* The engine has the metadata of torrent i of an earlier client: the
\* ontorrent callback of its client.add runs as for any torrent.
OrphanReady(i) ==
    /\ i \in 1..Len(orphans)
    /\ ~orphans[i].ready
    /\ orphans[i].infoHash # ""
    /\ addCalls' = [addCalls EXCEPT ![orphans[i].infoHash] = @ - 1]
    /\ LET enhancedTorrent == [orphans[i] EXCEPT !.ready = TRUE,
                                                 !.addedDate = now,
                                                 !.lastProgressTime = now]
       IN  /\ orphans' = [orphans EXCEPT ![i] = enhancedTorrent]
           /\ history' = updateHistory(history, enhancedTorrent, "active", "", now)
           /\ saveHistory(history', << Event("added", enhancedTorrent.infoHash) >>)
           /\ returned' = Returned("addTorrent.resolve", enhancedTorrent.infoHash,
                                   enhancedTorrent.infoHash)
    /\ progressOut' = << >>
    /\ UNCHANGED <<client, torrents, pendingRemove, now, servers, files,
                   storageFull, moduleLoaded, waiting, historyKind, callers,
                   listed, mounted, clients, progressInterval, timers>>

\* torrent.files: the files of the torrent's content once the metadata is
\* there, none before.
TorrentFiles(torrent) == IF torrent.ready THEN files[torrent.infoHash] ELSE << >>

RECURSIVE reduceLargest(_, _, _)
\* Array.prototype.reduce without an initial value, from position k on, with
\* a the position of the accumulator: (a, b) => (a.length > b.length ? a : b).
reduceLargest(fs, a, k) ==
    IF k > Len(fs)
    THEN a
    ELSE reduceLargest(fs, IF fs[a] > fs[k] THEN a ELSE k, k + 1)

\* A plausible slip: the comparison keeps the accumulator on equal lengths.
largestFileKeepsFirst(fs) ==
    CHOOSE k \in 1..Len(fs) :
        /\ \A j \in 1..Len(fs) : fs[j] <= fs[k]
        /\ \A j \in 1..(k - 1) : fs[j] < fs[k]

\* torrent.files.reduce(...): the position of the file it returns.
largestFile(fs) == reduceLargest(fs, 1, 2)

\* A plausible slip: getLargestFileForStreaming without the check of
\* torrent.ready.
GetLargestFileForStreamingNoReadyCheck(id) ==
    /\ LET i == Get(torrents, id)
       IN  IF i = 0
           THEN /\ returned' = Returned("getLargestFileForStreaming", InfoHashOf(id), "null")
                /\ UNCHANGED servers
           ELSE /\ Len(servers[torrents[i].infoHash]) < MaxServers
                /\ servers' = [servers EXCEPT ![torrents[i].infoHash] =
                                  Append(@, largestFile(TorrentFiles(torrents[i])))]
                /\ returned' = Returned("getLargestFileForStreaming", InfoHashOf(id), "stream")
    /\ emitted' = << >>
    /\ progressOut' = << >>
    /\ UNCHANGED <<client, torrents, history, pendingRemove, now, storage,
                   files, storageFull, historyKind, callers, listed, mounted,
                   clients, orphans, progressInterval, timers, moduleLoaded,
                   waiting, addCalls>>

\* getLargestFileForStreaming(id), up to the resolution of its promise: null
\* without a ready torrent; otherwise a server is created for the largest
\* file and listens, and the file and its URL are returned.  A server is kept
\* as the position of the file it serves.
GetLargestFileForStreaming(id) ==
    /\ LET i == Get(torrents, id)
       IN  IF i = 0 \/ ~torrents[i].ready
           THEN /\ returned' = Returned("getLargestFileForStreaming", InfoHashOf(id), "null")
                /\ UNCHANGED servers
           ELSE /\ Len(servers[torrents[i].infoHash]) < MaxServers
                /\ servers' = [servers EXCEPT ![torrents[i].infoHash] =
                                  Append(@, largestFile(TorrentFiles(torrents[i])))]
                /\ returned' = Returned("getLargestFileForStreaming", InfoHashOf(id), "stream")
    /\ emitted' = << >>
    /\ progressOut' = << >>
    /\ UNCHANGED <<client, torrents, history, pendingRemove, now, storage,
                   files, storageFull, historyKind, callers, listed, mounted,
                   clients, orphans, progressInterval, timers, moduleLoaded,
                   waiting, addCalls>>

\* getAllTorrentsProgress(): a snapshot of every torrent of the client.
GetAllTorrentsProgress ==
    /\ progressOut' = ProgressOf(torrents, now)
    /\ torrents' = PolledTorrents(torrents, now)
    /\ emitted' = << >>
    /\ returned' = Returned("getAllTorrentsProgress", "", "")
    /\ UNCHANGED <<client, history, pendingRemove, now, storage, servers,
                   files, storageFull, historyKind, callers, listed, mounted,
                   clients, orphans, progressInterval, timers, moduleLoaded,
                   waiting, addCalls>>

\* A plausible slip: the interval callback skips the torrents without metadata.
ProgressTickSkipsNotReady ==
    /\ client
    /\ timers # {}
    /\ progressOut' = ProgressOf(torrents, now)
    /\ torrents' = PolledTorrents(torrents, now)
    /\ emitted' = [i \in 1..Len(SelectSeq(torrents, LAMBDA t : t.ready)) |->
                      Event("progress", SelectSeq(torrents, LAMBDA t : t.ready)[i].infoHash)]
    /\ returned' = Returned("progressTick", "", "")
    /\ listed' = IF mounted THEN Delivered(listed, emitted') ELSE listed
    /\ UNCHANGED <<client, history, pendingRemove, now, storage, servers,
                   files, storageFull, historyKind, callers, clients, orphans,
                   progressInterval, timers, moduleLoaded, waiting, addCalls,
                   mounted>>

\* One run of the interval callback of startProgressEmitter: a 'progress'
\* event per torrent of this.client.  The timers are those getClient has
\* set; a run is one unbroken stretch, whichever timer it belongs to.
ProgressTick ==
    /\ client
    /\ timers # {}
    /\ progressOut' = ProgressOf(torrents, now)
    /\ torrents' = PolledTorrents(torrents, now)
    /\ emitted' = [i \in 1..Len(torrents) |-> Event("progress", torrents[i].infoHash)]
    /\ returned' = Returned("progressTick", "", "")
    /\ listed' = IF mounted THEN Delivered(listed, emitted') ELSE listed
    /\ UNCHANGED <<client, history, pendingRemove, now, storage, servers,
                   files, storageFull, historyKind, callers, clients, orphans,
                   progressInterval, timers, moduleLoaded, waiting, addCalls,
                   mounted>>

\* A run of the interval callback in which the work on torrent k throws:
\* getTorrentProgress while it reads the torrent (stage "read"), or a listener
\* of 'progress' while the event is delivered (stage "deliver", after
\* getTorrentProgress has written to the torrent).  Nothing in the callback
\* catches: forEach stops there and the exception leaves the callback.
ProgressTickFaulting(k, stage) ==
    /\ client
    /\ timers # {}
    /\ k \in 1..Len(torrents)
    /\ LET n == IF stage = "deliver" THEN k ELSE k - 1
       IN  /\ progressOut' = SubSeq(ProgressOf(torrents, now), 1, n)
           /\ torrents' = SubSeq(PolledTorrents(torrents, now), 1, n)
                             \o SubSeq(torrents, n + 1, Len(torrents))
    /\ emitted' = [i \in 1..(k - 1) |-> Event("progress", torrents[i].infoHash)]
    /\ returned' = Returned("progressTick", torrents[k].infoHash, "threw")
    /\ listed' = IF mounted THEN Delivered(listed, emitted') ELSE listed
    /\ UNCHANGED <<client, history, pendingRemove, now, storage, servers,
                   files, storageFull, historyKind, callers, clients, orphans,
                   progressInterval, timers, moduleLoaded, waiting, addCalls,
                   mounted>>

----------------------------------------------------------------------------
(* Specifications *)

\* A history loaded from storage: empty on a first run, or the records of an
\* earlier session, one per infoHash.
LoadedHistories ==
    { << >>,
      << [ infoHash |-> "hashB", addedDate |-> 2000, completedDate |-> 0,
           status |-> "removed", lastError |-> "" ],
         [ infoHash |-> "hashA", addedDate |-> 1000, completedDate |-> 1500,
           status |-> "completed", lastError |-> "swarm failure" ] >> }

\* What the browser's storage holds when the service is constructed: no item
\* on a first run, the history of an earlier session, or a text that is not
\* JSON.
StoredBlobs ==
    {Blob("absent", << >>), Blob("unparsable", << >>)}
        \cup {Blob("array", h) : h \in LoadedHistories}

\* The files of the content behind each infoHash, as its metadata lists them.
FilesOf == [h \in InfoHashes |-> IF h = "hashA" THEN <<700, 1400, 1400>> ELSE <<350>>]

\* The service after construction: no client, the history as loadHistory
\* read it from the storage.
Init ==
    /\ client = FALSE
    /\ torrents = << >>
    /\ storage \in StoredBlobs
    /\ history = loadHistory(storage).history
    /\ pendingRemove = [h \in InfoHashes |-> 0]
    /\ now = StartTime
    /\ emitted = << >>
    /\ progressOut = << >>
    /\ returned = Returned("constructor", "",
                           IF loadHistory(storage).threw THEN "threw" ELSE "")
    /\ servers = [h \in InfoHashes |-> << >>]
    /\ files = FilesOf
    /\ storageFull \in BOOLEAN
    /\ moduleLoaded = TRUE
    /\ waiting = {}
    /\ addCalls = [t \in Targets |-> 0]
    /\ historyKind = loadHistory(storage).kind
    /\ callers = 0
    /\ listed = {}
    /\ mounted = FALSE
    /\ orphans = << >>
    /\ clients = 0
    /\ progressInterval = 0
    /\ timers = {}

\* What the callers name a torrent by: a magnet link or an infoHash.  No
\* torrent of hashB is ever added.
Identifiers == Magnets \cup InfoHashes

Next ==
    \/ \E m \in Magnets : AddTorrent(m)
    \/ \E i \in 1..Len(torrents) : EngineReady(i)
    \/ \E i \in 1..Len(torrents) : EngineDone(i)
    \/ \E i \in 1..Len(torrents), e \in ErrorMessages, r \in BOOLEAN : EngineError(i, e, r)
    \/ \E id \in Identifiers : PauseTorrent(id)
    \/ \E id \in Identifiers : ResumeTorrent(id)
    \/ \E id \in Identifiers : RemoveTorrent(id)
    \/ \E h \in InfoHashes, err \in BOOLEAN : RemoveCallback(h, err)
    \/ ClearHistory
    \/ \E h \in InfoHashes : RemoveFromHistory(h)
    \/ GetAllTorrentsProgress
    \/ ProgressTick

\* The lifecycle of the service: every operation and every engine
\* notification, at one instant and with the counters of a fresh torrent.
Spec == Init /\ [][Next]_vars

----------------------------------------------------------------------------
(* The classifier on its whole input space *)

\* Milliseconds elapsed since a torrent was added, or since its last progress.
Elapsed == {0, 29000, 30000, 30001, 31000, 59000, 60000, 60001, 61000}

\* Transfer rates the engine reports, in bytes per second.
Speeds == {0, 2048}

\* The torrents getTorrentProgress can meet at time t.  Before the metadata
\* arrives the ontorrent callback has not run: addedDate and lastProgressTime
\* are undefined and the torrent cannot be done.  After it, both are set, and
\* lastProgressTime is never before addedDate.  noPeersReason stays once set.
ClassifierInputs(t) ==
    { [ infoHash         |-> "hashA",
        ready            |-> FALSE,
        done             |-> FALSE,
        paused           |-> p,
        numPeers         |-> n,
        downloadSpeed    |-> d,
        uploadSpeed      |-> u,
        addedDate        |-> 0,
        lastProgressTime |-> 0,
        statusForHistory |-> IF p THEN "paused" ELSE "",
        noPeersReason    |-> r ] :
        p \in BOOLEAN, n \in 0..MaxPeers, d \in Speeds, u \in Speeds,
        r \in {"", NoPeersMessage} }
    \cup
    { [ infoHash         |-> "hashA",
        ready            |-> TRUE,
        done             |-> f[1],
        paused           |-> f[2],
        numPeers         |-> n,
        downloadSpeed    |-> d,
        uploadSpeed      |-> u,
        addedDate        |-> t - e[1],
        lastProgressTime |-> t - e[2],
        statusForHistory |-> IF f[1] THEN "completed" ELSE IF f[2] THEN "paused" ELSE "",
        noPeersReason    |-> r ] :
        f \in BOOLEAN \X BOOLEAN, n \in 0..MaxPeers, d \in Speeds, u \in Speeds,
        e \in {x \in Elapsed \X Elapsed : x[2] <= x[1]},
        r \in {"", NoPeersMessage} }

\* A client that holds one torrent, in any state the classifier can meet.
InitClassify ==
    /\ client = TRUE
    /\ now = StartTime
    /\ torrents \in {<<t>> : t \in ClassifierInputs(StartTime)}
    /\ history = << >>
    /\ pendingRemove = [h \in InfoHashes |-> 0]
    /\ emitted = << >>
    /\ progressOut = << >>
    /\ returned = Returned("constructor", "", "")
    /\ storage = Blob("absent", << >>)
    /\ servers = [h \in InfoHashes |-> << >>]
    /\ files = FilesOf
    /\ storageFull = FALSE
    /\ moduleLoaded = TRUE
    /\ waiting = {}
    /\ addCalls = [t \in Targets |->
                    IF t = "hashA" /\ ~torrents[1].ready THEN 1 ELSE 0]
    /\ historyKind = "array"
    /\ callers = 0
    /\ listed = {}
    /\ mounted = FALSE
    /\ orphans = << >>
    /\ clients = 1
    /\ progressInterval = 1
    /\ timers = {1}

NextClassify ==
    \/ GetAllTorrentsProgress
    \/ ProgressTick

\* getTorrentProgress applied to every torrent state, by either of its callers.
SpecClassify == InitClassify /\ [][NextClassify]_vars

----------------------------------------------------------------------------
(* Streaming over every file list *)

\* Byte lengths of files.
FileSizes == {350, 700, 1400}

\* The file lists of a content: at least one file, at most MaxFiles.
FileLists == UNION {[1..n -> FileSizes] : n \in 1..MaxFiles}

\* The service after construction, the content of hashA having any file list.
InitStream ==
    /\ client = FALSE
    /\ torrents = << >>
    /\ storage = Blob("absent", << >>)
    /\ history = << >>
    /\ pendingRemove = [h \in InfoHashes |-> 0]
    /\ now = StartTime
    /\ emitted = << >>
    /\ progressOut = << >>
    /\ returned = Returned("constructor", "", "")
    /\ servers = [h \in InfoHashes |-> << >>]
    /\ files \in {[FilesOf EXCEPT !["hashA"] = fs] : fs \in FileLists}
    /\ storageFull = FALSE
    /\ moduleLoaded = TRUE
    /\ waiting = {}
    /\ addCalls = [t \in Targets |-> 0]
    /\ historyKind = "array"
    /\ callers = 0
    /\ listed = {}
    /\ mounted = FALSE
    /\ orphans = << >>
    /\ clients = 0
    /\ progressInterval = 0
    /\ timers = {}

NextStream ==
    \/ \E m \in Magnets : AddTorrent(m)
    \/ \E i \in 1..Len(torrents) : EngineReady(i)
    \/ \E id \in Identifiers : GetLargestFileForStreaming(id)
    \/ \E id \in Identifiers : RemoveTorrent(id)
    \/ \E h \in InfoHashes, err \in BOOLEAN : RemoveCallback(h, err)

\* A torrent is added, gets its metadata, is asked for its stream at any
\* moment, and is removed.
SpecStream == InitStream /\ [][NextStream]_vars

----------------------------------------------------------------------------
(* Polling a client with two torrents *)

\* Magnet links of two contents.
TwoMagnets == {"magnet:A?tr=1", "magnet:B"}

\* The service after construction on a first run.
InitPoll ==
    /\ client = FALSE
    /\ torrents = << >>
    /\ storage = Blob("absent", << >>)
    /\ history = << >>
    /\ pendingRemove = [h \in InfoHashes |-> 0]
    /\ now = StartTime
    /\ emitted = << >>
    /\ progressOut = << >>
    /\ returned = Returned("constructor", "", "")
    /\ servers = [h \in InfoHashes |-> << >>]
    /\ files = FilesOf
    /\ storageFull = FALSE
    /\ moduleLoaded = TRUE
    /\ waiting = {}
    /\ addCalls = [t \in Targets |-> 0]
    /\ historyKind = "array"
    /\ callers = 0
    /\ listed = {}
    /\ mounted = FALSE
    /\ orphans = << >>
    /\ clients = 0
    /\ progressInterval = 0
    /\ timers = {}

NextPoll ==
    \/ \E m \in TwoMagnets : AddTorrent(m)
    \/ \E i \in 1..Len(torrents) : EngineReady(i)
    \/ \E i \in 1..Len(torrents) : EngineDone(i)
    \/ \E h \in InfoHashes : RemoveTorrent(h)
    \/ ProgressTick

\* Two torrents are added, progress and leave, in any order, while the
\* interval callback runs.
SpecPoll == InitPoll /\ [][NextPoll]_vars

----------------------------------------------------------------------------
(* Adding, from the load of the engine module on *)

\* A locator that does not parse to an infoHash.
InvalidLocator == "magnet:?xt=garbage"

\* The locators the callers add.
Locators == Magnets \cup {InvalidLocator}

\* The service after construction on a first run, the dynamic import of the
\* engine module still pending.
InitAdd ==
    /\ client = FALSE
    /\ torrents = << >>
    /\ storage = Blob("absent", << >>)
    /\ history = << >>
    /\ pendingRemove = [h \in InfoHashes |-> 0]
    /\ now = StartTime
    /\ emitted = << >>
    /\ progressOut = << >>
    /\ returned = Returned("constructor", "", "")
    /\ servers = [h \in InfoHashes |-> << >>]
    /\ files = FilesOf
    /\ storageFull = FALSE
    /\ moduleLoaded = FALSE
    /\ waiting = {}
    /\ addCalls = [t \in Targets |-> 0]
    /\ historyKind = "array"
    /\ callers = 0
    /\ listed = {}
    /\ mounted = FALSE
    /\ orphans = << >>
    /\ clients = 0
    /\ progressInterval = 0
    /\ timers = {}

\* The engine fails to parse the locator of torrent i and reports it.
EngineRejectsLocator(i) ==
    /\ i \in 1..Len(torrents)
    /\ torrents[i].infoHash = ""
    /\ \E e \in ErrorMessages, r \in BOOLEAN : EngineError(i, e, r)

NextAdd ==
    \/ ModuleLoads
    \/ \E m \in Locators : AddTorrent(m)
    \/ \E m \in Locators : AddTorrentResumes(m)
    \/ \E i \in 1..Len(torrents) : EngineReady(i)
    \/ \E i \in 1..Len(torrents), e \in ErrorMessages, r \in BOOLEAN : EngineError(i, e, r)
    \/ \E id \in Identifiers : RemoveTorrent(id)
    \/ \E h \in InfoHashes, err \in BOOLEAN : RemoveCallback(h, err)

\* addTorrent and removeTorrent at any moment from the construction on, with
\* the engine's answers.
SpecAdd == InitAdd /\ [][NextAdd]_vars

\* The same, with what the timers and the engine are bound to do: the polling
\* loop of getClient runs every 100 ms, the engine calls back on a removal,
\* and it reports a locator it cannot parse.  Whether the module ever loads
\* and whether the metadata of a torrent ever arrives is left open.
FairSpecAdd ==
    /\ SpecAdd
    /\ WF_vars(\E m \in Locators : AddTorrentResumes(m))
    /\ WF_vars(\E h \in InfoHashes, err \in BOOLEAN : RemoveCallback(h, err))
    /\ WF_vars(\E i \in 1..Len(torrents) : EngineRejectsLocator(i))

----------------------------------------------------------------------------
(* Polling a download while its counters change and time passes *)

\* The engine's counters of torrent i change: its peers come and go and its
\* download rate follows.  No handler of the service runs, and the last
\* snapshots stay what they were.
EngineCounters(i, n, d) ==
    /\ i \in 1..Len(torrents)
    /\ torrents[i].ready
    /\ <<n, d>> # <<torrents[i].numPeers, torrents[i].downloadSpeed>>
    /\ torrents' = [torrents EXCEPT ![i].numPeers = n, ![i].downloadSpeed = d]
    /\ returned' = Returned("engine.counters", torrents[i].infoHash, "")
    /\ emitted' = << >>
    /\ UNCHANGED <<client, history, pendingRemove, now, progressOut, storage,
                   servers, files, storageFull, historyKind, callers, listed,
                   mounted, clients, orphans, progressInterval, timers,
                   moduleLoaded, waiting, addCalls>>

\* Time passes: ClockStep milliseconds, up to MaxAdvances times.
AdvanceClock ==
    /\ now < StartTime + MaxAdvances * ClockStep
    /\ now' = now + ClockStep
    /\ returned' = Returned("clock", "", "")
    /\ emitted' = << >>
    /\ UNCHANGED <<client, torrents, history, pendingRemove, progressOut,
                   storage, servers, files, storageFull, historyKind, callers,
                   listed, mounted, clients, orphans, progressInterval,
                   timers, moduleLoaded, waiting, addCalls>>

\* A torrent as the ontorrent callback leaves it at StartTime.
AddedTorrent ==
    [NewTorrent("magnet:A?tr=1") EXCEPT !.ready = TRUE,
                                        !.addedDate = StartTime,
                                        !.lastProgressTime = StartTime]

\* The service right after an addTorrent resolved on a first run.
InitRecover ==
    /\ client = TRUE
    /\ torrents = << AddedTorrent >>
    /\ history = updateHistory(<< >>, AddedTorrent, "active", "", StartTime)
    /\ storage = Blob("array", history)
    /\ pendingRemove = [h \in InfoHashes |-> 0]
    /\ now = StartTime
    /\ emitted = << >>
    /\ progressOut = << >>
    /\ returned = Returned("addTorrent.resolve", "hashA", "hashA")
    /\ servers = [h \in InfoHashes |-> << >>]
    /\ files = FilesOf
    /\ storageFull = FALSE
    /\ moduleLoaded = TRUE
    /\ waiting = {}
    /\ addCalls = [t \in Targets |-> 0]
    /\ historyKind = "array"
    /\ callers = 0
    /\ listed = {}
    /\ mounted = FALSE
    /\ orphans = << >>
    /\ clients = 1
    /\ progressInterval = 1
    /\ timers = {1}

NextRecover ==
    \/ ProgressTick
    \/ \E i \in 1..Len(torrents), n \in 0..MaxPeers, d \in Speeds : EngineCounters(i, n, d)
    \/ AdvanceClock

\* One download polled by the interval callback while its peers and its rate
\* change and time passes.
SpecRecover == InitRecover /\ [][NextRecover]_vars

----------------------------------------------------------------------------
(* Polling with faults *)

\* Where the work on a torrent can throw within the interval callback.
FaultStages == {"read", "deliver"}

NextFault ==
    \/ NextPoll
    \/ \E k \in 1..Len(torrents), stage \in FaultStages : ProgressTickFaulting(k, stage)

\* The polling of two torrents, with runs of the interval callback in which
\* the work on one torrent throws.
SpecFault == InitPoll /\ [][NextFault]_vars

----------------------------------------------------------------------------
(* Vocabulary of the properties *)

\* The records of the history with this infoHash.
RecordsOf(h, infoHash) == {i \in 1..Len(h) : h[i].infoHash = infoHash}

\* The events of this type and id among those the last handler emitted.
EventsOf(type, id) == {i \in 1..Len(emitted) : emitted[i] = Event(type, id)}

\* The last handler computed a snapshot of every torrent, and the torrents are
\* as it left them.
Polled == returned.op \in {"getAllTorrentsProgress", "progressTick"}

\* Torrent i is downloading as far as the engine's flags say.
Downloading(i) == torrents[i].ready /\ ~torrents[i].done /\ ~torrents[i].paused

----------------------------------------------------------------------------
(* Properties *)

C2_OneRecordPerInfoHash ==
    \A i, j \in 1..Len(history) :
        history[i].infoHash = history[j].infoHash => i = j

\* C2, witness: the record of a torrent was upserted down to removed next to
\* the record of another torrent.
C2_Witness ==
    /\ Len(history) = 2
    /\ \E i \in 1..2 : history[i].infoHash = "hashA" /\ history[i].status = "removed"
    /\ returned.op = "removeTorrent"

\* C3: addTorrent of a locator whose torrent is not in the client puts the
\* torrent into client.torrents, and when it resolves the torrent is in the
\* client, its record in the history has status active and exactly one
\* 'added' event of it was emitted.
C3_AddStartsRecordsAndAnnounces ==
    /\ (returned.op = "addTorrent" /\ returned.val = "pending")
        => Get(torrents, returned.arg) # 0
    /\ returned.op = "addTorrent.resolve"
        => /\ returned.val = returned.arg
           /\ Get(torrents, returned.arg) # 0
           /\ torrents[Get(torrents, returned.arg)].ready
           /\ \E i \in RecordsOf(history, returned.arg) : history[i].status = "active"
           /\ Cardinality(EventsOf("added", returned.arg)) = 1

\* C3, witness: an addTorrent resolved over a record of an earlier session.
C3_Witness ==
    /\ returned.op = "addTorrent.resolve"
    /\ Len(history) = 2
    /\ Cardinality(EventsOf("added", "hashA")) = 1

\* C4 (as stated): a torrent added and still waiting for its metadata (the
\* ontorrent callback has not stamped it) is reported with status metadata,
\* by getAllTorrentsProgress and by the 'progress' event alike.
C4_NewTorrentReportedMetadata ==
    Polled => \A i \in 1..Len(torrents) :
                 torrents[i].addedDate = 0 => progressOut[i].status = "metadata"

\* C5 (as stated): a torrent that is not ready is classified metadata, whatever
\* its other fields.
C5_NotReadyIsMetadata ==
    Polled => \A i \in 1..Len(torrents) :
                 ~torrents[i].ready => progressOut[i].status = "metadata"

\* C6 (as stated): a torrent that is ready, not done and paused is classified
\* paused, whatever its peers, rates and age.
C6_PausedIsPaused ==
    Polled => \A i \in 1..Len(torrents) :
                 (torrents[i].ready /\ ~torrents[i].done /\ torrents[i].paused)
                    => progressOut[i].status = "paused"

\* C7: a torrent that is ready and done is classified seeding when its upload
\* rate is above 0 and done otherwise, whatever its paused flag, peers and age.
C7_DoneIsSeedingOrDone ==
    Polled => \A i \in 1..Len(torrents) :
                 (torrents[i].ready /\ torrents[i].done)
                    => progressOut[i].status =
                          IF torrents[i].uploadSpeed > 0 THEN "seeding" ELSE "done"

\* C7, witness: a done torrent, paused, without peers for over a minute, is
\* reported done.
C7_Witness ==
    /\ Polled
    /\ torrents[1].done /\ torrents[1].paused /\ torrents[1].numPeers = 0
    /\ now - torrents[1].addedDate > NO_PEERS_TIMEOUT
    /\ progressOut[1].status = "done"

\* C8: a downloading torrent with peers and no download rate is classified
\* stalled when its last progress is more than STALL_TIMEOUT ago, and
\* downloading when it is not.
C8_StalledAfterTimeout ==
    Polled => \A i \in 1..Len(torrents) :
                 (Downloading(i) /\ torrents[i].numPeers > 0
                                 /\ torrents[i].downloadSpeed = 0)
                    => progressOut[i].status =
                          IF now - torrents[i].lastProgressTime > STALL_TIMEOUT
                          THEN "stalled" ELSE "downloading"

\* C8, witness: 31 s without progress is reported stalled.
C8_Witness ==
    /\ Polled
    /\ Downloading(1) /\ torrents[1].numPeers > 0 /\ torrents[1].downloadSpeed = 0
    /\ now - torrents[1].lastProgressTime = 31000
    /\ progressOut[1].status = "stalled"

\* C9: a downloading torrent without peers is classified no_peers, with a
\* reason, when it was added more than NO_PEERS_TIMEOUT ago, and is not
\* classified no_peers when it was not.
C9_NoPeersAfterTimeout ==
    Polled => \A i \in 1..Len(torrents) :
                 (Downloading(i) /\ torrents[i].numPeers = 0)
                    => IF now - torrents[i].addedDate > NO_PEERS_TIMEOUT
                       THEN /\ progressOut[i].status = "no_peers"
                            /\ progressOut[i].noPeersReason # ""
                       ELSE progressOut[i].status # "no_peers"

\* C9, witness: 61 s without peers is reported no_peers.
C9_Witness ==
    /\ Polled
    /\ Downloading(1) /\ torrents[1].numPeers = 0
    /\ now - torrents[1].addedDate = 61000
    /\ progressOut[1].status = "no_peers"

\* C10 (as stated): removeTorrent of a torrent of the client takes it out of
\* client.torrents and marks its record removed, and its callback emits
\* exactly one 'removed' event of its infoHash.
C10_RemoveDropsRecordsAndAnnounces ==
    /\ (returned.op = "removeTorrent" /\ returned.val = "removing")
        => /\ Get(torrents, returned.arg) = 0
           /\ \E i \in RecordsOf(history, returned.arg) : history[i].status = "removed"
    /\ returned.op = "removeTorrent.callback"
        => Cardinality(EventsOf("removed", returned.arg)) = 1

C12_PauseResumeNoOpsKeepCompletedDate ==
    [][ returned'.op \in {"pauseTorrent", "resumeTorrent"}
        => LET i == Get(torrents, returned'.arg)
           IN  /\ (i = 0 \/ torrents[i].paused = (returned'.op = "pauseTorrent"))
                    => /\ torrents' = torrents
                       /\ history' = history
                       /\ storage' = storage
                       /\ emitted' = << >>
               /\ \A a \in 1..Len(history), b \in 1..Len(history') :
                    history[a].infoHash = history'[b].infoHash
                        => history'[b].completedDate = history[a].completedDate ]_vars

\* C12, witness: pauseTorrent of a paused torrent whose record has a
\* completedDate, with the storage writable.
C12_Witness ==
    /\ returned = Returned("pauseTorrent", "hashA", "")
    /\ ~storageFull
    /\ emitted = << >>
    /\ Get(torrents, "hashA") # 0
    /\ torrents[Get(torrents, "hashA")].paused
    /\ \E a \in RecordsOf(history, "hashA") : history[a].completedDate # 0

\* C13 (as stated): when the engine reports a torrent of the client done, the
\* history holds a record of it with status completed and the time of the
\* report as completedDate, and exactly one 'done' event of it is emitted.
C13_DoneCompletesRecordAndAnnounces ==
    returned.op = "torrent.done"
        => /\ \E a \in RecordsOf(history, returned.arg) :
                /\ history[a].status = "completed"
                /\ history[a].completedDate = now
           /\ Cardinality(EventsOf("done", returned.arg)) = 1

\* C14 (as stated): when the engine reports an error on a torrent of the
\* client, the history holds a record of it with status error and the message
\* as lastError, exactly one 'error' event of it is emitted, and the torrent
\* is still in client.torrents.
C14_ErrorRecordsAnnouncesAndKeeps ==
    returned.op = "torrent.error"
        => /\ \E a \in RecordsOf(history, returned.arg) :
                /\ history[a].status = "error"
                /\ history[a].lastError \in ErrorMessages
           /\ Cardinality(EventsOf("error", returned.arg)) = 1
           /\ Get(torrents, returned.arg) # 0

\* C15: a step changes the completedDate of a record that stays in the
\* history only when it is the upsert of the 'done' handler, which leaves the
\* record completed; every other upsert keeps the completedDate, set or not.
C15_CompletedDateChangesOnlyOnCompleted ==
    [][ \A a \in 1..Len(history), b \in 1..Len(history') :
            (/\ history[a].infoHash = history'[b].infoHash
             /\ history[a].completedDate # history'[b].completedDate)
                => /\ history'[b].status = "completed"
                   /\ returned'.op = "torrent.done"
                   /\ returned'.arg = history'[b].infoHash
                   /\ history'[b].completedDate = now ]_vars

\* C15, witness: a record completed in an earlier session was made active
\* again, paused and then removed, and still has the completedDate of that
\* session.
C15_Witness ==
    /\ returned = Returned("removeTorrent", "hashA", "removing")
    /\ \E a \in RecordsOf(history, "hashA") :
            /\ history[a].status = "removed"
            /\ history[a].completedDate = 1500

\* The step is a handler that changed the history through updateHistory,
\* removeFromHistory or clearHistory.
HistoryMutation ==
    \/ returned'.op \in {"clearHistory", "removeFromHistory",
                         "addTorrent.resolve", "torrent.done"}
    \/ returned'.op = "removeTorrent" /\ returned'.val = "removing"
    \/ returned'.op \in {"pauseTorrent", "resumeTorrent"} /\ torrents' # torrents
    \/ returned'.op = "torrent.error" /\ history' # history

\* What getDownloadHistory() returns right after the step shows the step's
\* effect.
HistoryEffectObserved ==
    LET observed == history'
        statusOf == [op \in {"addTorrent.resolve", "torrent.done", "removeTorrent",
                             "pauseTorrent", "resumeTorrent", "torrent.error"} |->
                        CASE op = "addTorrent.resolve" -> "active"
                          [] op = "torrent.done" -> "completed"
                          [] op = "removeTorrent" -> "removed"
                          [] op = "pauseTorrent" -> "paused"
                          [] op = "resumeTorrent" -> "active"
                          [] OTHER -> "error"]
    IN  CASE returned'.op = "clearHistory" -> observed = << >>
          [] returned'.op = "removeFromHistory" ->
                observed = SelectSeq(history, LAMBDA item : item.infoHash # returned'.arg)
          [] OTHER ->
                \E a \in RecordsOf(observed, returned'.arg) :
                    observed[a].status = statusOf[returned'.op]

\* C16 (as stated): every handler that changes the history through
\* updateHistory, removeFromHistory or clearHistory has, when it returns,
\* written the new history to the storage and emitted one 'historyUpdated',
\* and getDownloadHistory right after it shows its effect.
C16_MutationsPersistAndNotify ==
    [][ HistoryMutation
        => /\ storage' = Blob("array", history')
           /\ Cardinality({i \in 1..Len(emitted') :
                              emitted'[i] = Event("historyUpdated", "")}) = 1
           /\ HistoryEffectObserved ]_vars

\* C17: constructed over a stored text that JSON.parse rejects, the service
\* has an empty history and the constructor returns normally.
C17_UnparsableStorageLoadsEmpty ==
    (returned.op = "constructor" /\ storage.kind = "unparsable")
        => /\ history = << >>
           /\ returned.val = ""

\* C17, witness: the service right after its construction over such a text.
C17_Witness ==
    /\ returned.op = "constructor"
    /\ storage.kind = "unparsable"
    /\ ~client

\* C18: getLargestFileForStreaming of an identifier whose torrent is not in
\* the client, or is there without its metadata, returns null and creates no
\* server; nothing else changes either.
C18_NoStreamWithoutReadyTorrent ==
    [][ (/\ returned'.op = "getLargestFileForStreaming"
         /\ \/ Get(torrents, returned'.arg) = 0
            \/ ~torrents[Get(torrents, returned'.arg)].ready)
        => /\ returned'.val = "null"
           /\ servers' = servers
           /\ torrents' = torrents
           /\ emitted' = << >> ]_vars

\* C18, witness: a stream was asked of a torrent still waiting for its
\* metadata.
C18_Witness ==
    /\ returned = Returned("getLargestFileForStreaming", "hashA", "null")
    /\ Get(torrents, "hashA") # 0
    /\ ~torrents[Get(torrents, "hashA")].ready
    /\ servers["hashA"] = << >>

\* The file the last getLargestFileForStreaming made a server for.
StreamedFile == servers[returned.arg][Len(servers[returned.arg])]

\* C19 (as amended): for a ready torrent getLargestFileForStreaming serves a
\* file of the greatest length, and among files of that length the last one
\* of torrent.files.
C19_LargestFileLastOnTies ==
    (returned.op = "getLargestFileForStreaming" /\ returned.val = "stream")
        => LET fs == files[returned.arg]
           IN  /\ StreamedFile \in 1..Len(fs)
               /\ \A j \in 1..Len(fs) : fs[j] <= fs[StreamedFile]
               /\ \A j \in (StreamedFile + 1)..Len(fs) : fs[j] < fs[StreamedFile]

\* C19, witness: of three files the first two are the largest, equal in
\* length, and the second one is served.
C19_Witness ==
    /\ returned = Returned("getLargestFileForStreaming", "hashA", "stream")
    /\ files["hashA"] = <<1400, 1400, 700>>
    /\ StreamedFile = 2

\* C19 (as stated): for a ready torrent getLargestFileForStreaming serves a
\* file of the greatest length, and among files of that length the first one
\* of torrent.files.
C19_LargestFileFirstOnTies ==
    (returned.op = "getLargestFileForStreaming" /\ returned.val = "stream")
        => LET fs == files[returned.arg]
           IN  /\ StreamedFile \in 1..Len(fs)
               /\ \A j \in 1..Len(fs) : fs[j] <= fs[StreamedFile]
               /\ \A j \in 1..(StreamedFile - 1) : fs[j] < fs[StreamedFile]

\* C20: a run of the interval callback emits 'progress' events only, one for
\* each torrent of the client, in the client's order, each with the snapshot
\* of its torrent, whatever the torrents' states.
C20_OneProgressEventPerTorrent ==
    returned.op = "progressTick"
        => /\ Len(emitted) = Len(torrents)
           /\ Len(progressOut) = Len(torrents)
           /\ \A i \in 1..Len(torrents) :
                /\ emitted[i] = Event("progress", torrents[i].infoHash)
                /\ progressOut[i].torrentId = torrents[i].infoHash
                /\ Cardinality(EventsOf("progress", torrents[i].infoHash)) = 1

\* C20, witness: the callback ran over a torrent still waiting for its
\* metadata and a finished one.
C20_Witness ==
    /\ returned.op = "progressTick"
    /\ Len(torrents) = 2
    /\ ~torrents[1].ready
    /\ torrents[2].done
    /\ Len(emitted) = 2

\* The handlers nobody calls: the interval callback, the engine's
\* notifications and the callback of client.remove.
AutomaticSteps == {"progressTick", "torrent.done", "torrent.error", "removeTorrent.callback"}

\* C21: the interval callback, a 'done' or 'error' notification and the
\* callback of client.remove leave every record with status removed as it
\* is, and leave the records of every torrent that is not in the client as
\* they are (none is created).
C21_NoAutomaticExitFromRemoved ==
    [][ returned'.op \in AutomaticSteps
        => /\ \A a \in 1..Len(history) :
                history[a].status = "removed"
                    => \E b \in 1..Len(history') : history'[b] = history[a]
           /\ \A h \in InfoHashes :
                Get(torrents, h) = 0
                    => SelectSeq(history', LAMBDA item : item.infoHash = h)
                         = SelectSeq(history, LAMBDA item : item.infoHash = h) ]_vars

\* C21, witness: a removed torrent was added again and the engine reported
\* an error on it before its metadata; its record is still removed.
C21_Witness ==
    /\ returned = Returned("torrent.error", "hashA", "rejected")
    /\ \E a \in RecordsOf(history, "hashA") : history[a].status = "removed"
    /\ Get(torrents, "hashA") = 0

\* An addTorrent call of this target has neither returned nor failed.
Outstanding(t) == addCalls[t] > 0 \/ \E m \in waiting : InfoHashOf(m) = t

\* C22 (as stated): every addTorrent call eventually completes, by returning
\* or by failing, whether or not the engine module loads, the metadata
\* arrives, or the torrent is removed first.
C22_EveryAddCompletes ==
    \A t \in Targets : Outstanding(t) ~> ~Outstanding(t)

\* C23: addTorrent of a locator that does not parse is rejected when the
\* engine reports the failure, and the torrent is then out of
\* client.torrents; from the call to the rejection no record is created or
\* changed, nothing is written to the storage and no event is emitted for it.
C23_InvalidLocatorRejectedWithoutTrace ==
    [][ /\ (returned'.op = "addTorrent" /\ returned'.arg = "" /\ returned'.val = "pending")
            => /\ history' = history
               /\ storage' = storage
               /\ emitted' = << >>
        /\ (returned'.op = "torrent.error" /\ returned'.arg = "")
            => /\ returned'.val = "rejected"
               /\ addCalls'[""] = addCalls[""] - 1
               /\ Len(SelectSeq(torrents', LAMBDA t : t.infoHash = ""))
                    = Len(SelectSeq(torrents, LAMBDA t : t.infoHash = "")) - 1
               /\ history' = history
               /\ storage' = storage
               /\ emitted' = << >>
        /\ RecordsOf(history', "") = {}
        /\ \A k \in 1..Len(emitted') : emitted'[k] # Event("added", "") ]_vars

\* C23, witness: the only unparsable locator added was rejected, next to a
\* torrent with its record.
C23_Witness ==
    /\ returned = Returned("torrent.error", "", "rejected")
    /\ addCalls[""] = 0
    /\ \A i \in 1..Len(torrents) : torrents[i].infoHash # ""
    /\ Len(torrents) = 1
    /\ Len(history) = 1

\* The record of this infoHash is marked removed.
MarkedRemoved(infoHash) ==
    \E a \in RecordsOf(history, infoHash) : history[a].status = "removed"

\* C24: after removeTorrent has taken a torrent out of the client and marked
\* its record removed, addTorrent of the same locator puts a new torrent
\* into client.torrents, and when it resolves the same record is active
\* again, its other fields kept, the only record of that infoHash.
C24_ReaddAfterRemoveReactivatesRecord ==
    [][ /\ (/\ returned'.op = "addTorrent"
            /\ Get(torrents, returned'.arg) = 0
            /\ MarkedRemoved(returned'.arg))
            => /\ returned'.val = "pending"
               /\ Get(torrents', returned'.arg) # 0
               /\ ~torrents'[Get(torrents', returned'.arg)].ready
               /\ history' = history
        /\ (returned'.op = "addTorrent.resolve" /\ MarkedRemoved(returned'.arg))
            => /\ Get(torrents', returned'.arg) # 0
               /\ Cardinality(RecordsOf(history', returned'.arg)) = 1
               /\ \E a \in RecordsOf(history, returned'.arg) :
                    history' = [history EXCEPT ![a].status = "active"] ]_vars

\* C24, witness: a torrent completed in an earlier session was removed and
\* added again, and the second addTorrent resolved before the callback of the
\* removal came.
C24_Witness ==
    /\ returned = Returned("addTorrent.resolve", "hashA", "hashA")
    /\ pendingRemove["hashA"] > 0
    /\ Len(history) = 2
    /\ \E a \in RecordsOf(history, "hashA") :
            /\ history[a].status = "active"
            /\ history[a].completedDate = 1500

\* The values of HistoryItem.status.
HistoryStatuses == {"completed", "failed", "removed", "active", "error", "stalled"}

\* C25 (as stated): the status of every record of the history is one of the
\* values of HistoryItem.status.
C25_HistoryStatusInEnum ==
    \A a \in 1..Len(history) : history[a].status \in HistoryStatuses

\* C26 (as stated): a snapshot whose status is not no_peers carries no
\* noPeersReason.
C26_ReasonOnlyWithNoPeers ==
    \A i \in 1..Len(progressOut) :
        progressOut[i].status # "no_peers" => progressOut[i].noPeersReason = ""

\* C27 (as stated): a run of the interval callback over a torrent whose
\* download rate is 0, with or without peers, or whose status by its flags is
\* not downloading, leaves the torrent's lastProgressTime as it was.
C27_ProgressTimeOnlyWhenDownloading ==
    [][ returned'.op = "progressTick"
        => \A i \in 1..Len(torrents) :
              (torrents[i].downloadSpeed = 0 \/ classify(torrents[i]) # "downloading")
                 => torrents'[i].lastProgressTime = torrents[i].lastProgressTime ]_vars

\* The last run of the interval callback reported this status for torrent i.
Reported(i, status) ==
    /\ Len(progressOut) = Len(torrents)
    /\ progressOut[i].status = status

\* C28: a download reported stalled is reported downloading by the next run
\* of the interval callback once its download rate is above 0 (it still has
\* peers and is neither paused nor done), and a torrent reported no_peers is
\* not reported no_peers by the next run once it has a peer.
C28_DegradedStatesRecover ==
    [][ returned'.op = "progressTick"
        => \A i \in 1..Len(torrents) :
              /\ (/\ Reported(i, "stalled")
                  /\ Downloading(i)
                  /\ torrents[i].downloadSpeed > 0
                  /\ torrents[i].numPeers > 0)
                    => progressOut'[i].status = "downloading"
              /\ (Reported(i, "no_peers") /\ torrents[i].numPeers > 0)
                    => progressOut'[i].status # "no_peers" ]_vars

\* C28, witness: a download was reported no_peers more than a minute after
\* it was added, got a peer and its rate back, and the next run reported it
\* downloading with a fresh lastProgressTime.
C28_Witness ==
    /\ returned.op = "progressTick"
    /\ progressOut[1].status = "downloading"
    /\ torrents[1].lastProgressTime = now
    /\ now > StartTime + STALL_TIMEOUT
    /\ torrents[1].addedDate = StartTime
    /\ torrents[1].noPeersReason # ""

\* C29 (as stated): a run of the interval callback in which the work on one
\* torrent fails still emits one 'progress' event for every other torrent of
\* the client, and the failure does not leave the callback.
C29_FaultsIsolatedWithinTick ==
    returned.op = "progressTick"
        => /\ returned.val # "threw"
           /\ \A i \in 1..Len(torrents) :
                torrents[i].infoHash # returned.arg
                    => Cardinality(EventsOf("progress", torrents[i].infoHash)) = 1

\* C30 (as stated): once removeTorrent has removed a torrent, and still when
\* the callback of client.remove comes, no stream server made for that
\* torrent is listening.
C30_ServersReleasedOnRemove ==
    /\ (returned.op = "removeTorrent" /\ returned.val = "removing")
        => servers[returned.arg] = << >>
    /\ (returned.op = "removeTorrent.callback" /\ Get(torrents, returned.arg) = 0)
        => servers[returned.arg] = << >>


----------------------------------------------------------------------------
(* The service on whatever the storage holds *)

\* The stored texts that JSON.parse accepts and that denote no list.
NonListBlobs == {Blob(k, << >>) : k \in {"null", "object", "string"}}

\* The service after construction, on any stored payload.
InitLoad ==
    /\ client = FALSE
    /\ torrents = << >>
    /\ storage \in StoredBlobs \cup NonListBlobs
    /\ history = loadHistory(storage).history
    /\ historyKind = loadHistory(storage).kind
    /\ pendingRemove = [h \in InfoHashes |-> 0]
    /\ now = StartTime
    /\ emitted = << >>
    /\ progressOut = << >>
    /\ returned = Returned("constructor", "",
                           IF loadHistory(storage).threw THEN "threw" ELSE "")
    /\ servers = [h \in InfoHashes |-> << >>]
    /\ files = FilesOf
    /\ storageFull \in BOOLEAN
    /\ moduleLoaded = TRUE
    /\ waiting = {}
    /\ addCalls = [t \in Targets |-> 0]
    /\ callers = 0
    /\ listed = {}
    /\ mounted = FALSE
    /\ orphans = << >>
    /\ clients = 0
    /\ progressInterval = 0
    /\ timers = {}

NextLoad ==
    \/ GetDownloadHistory
    \/ ClearHistory
    \/ \E h \in InfoHashes : RemoveFromHistory(h)
    \/ InitializeClient
    \/ \E m \in Magnets : AddTorrent(m)
    \/ GetAllTorrentsProgress

\* The history of the service from its construction on, with the operations
\* that read or replace this.history as a whole.
SpecLoad == InitLoad /\ [][NextLoad]_vars

\* C31: whatever the storage holds (nothing, a text that is not JSON, or the
\* JSON text of something that is no list), the constructor does not throw,
\* and getDownloadHistory and the provider's initializeClient, which calls
\* it, return a sequence of records without throwing.
C31_AnyPayloadLoadsAsRecords ==
    /\ returned.op = "constructor" => returned.val # "threw"
    /\ returned.op = "getDownloadHistory" => returned.val = "records"
    /\ returned.op = "initializeClient" => returned.val # "threw"


----------------------------------------------------------------------------
(* The service while the engine module loads *)

\* The service after construction, the engine module not yet loaded.
InitClient ==
    /\ client = FALSE
    /\ now = StartTime
    /\ torrents = << >>
    /\ history = << >>
    /\ pendingRemove = [h \in InfoHashes |-> 0]
    /\ emitted = << >>
    /\ progressOut = << >>
    /\ returned = Returned("constructor", "", "")
    /\ storage = Blob("absent", << >>)
    /\ servers = [h \in InfoHashes |-> << >>]
    /\ files = FilesOf
    /\ storageFull = FALSE
    /\ moduleLoaded = FALSE
    /\ waiting = {}
    /\ addCalls = [t \in Targets |-> 0]
    /\ historyKind = "array"
    /\ callers = 0
    /\ listed = {}
    /\ mounted = FALSE
    /\ orphans = << >>
    /\ clients = 0
    /\ progressInterval = 0
    /\ timers = {}

NextClient ==
    \/ InitializeClient
    \/ InitializeClientResumes
    \/ \E m \in Magnets : AddTorrent(m)
    \/ \E m \in Magnets : AddTorrentResumes(m)
    \/ ModuleLoads
    \/ \E i \in 1..Len(torrents) : EngineReady(i)
    \/ \E i \in 1..Len(orphans) : OrphanReady(i)
    \/ \E id \in InfoHashes : RemoveTorrent(id)
    \/ \E h \in InfoHashes, err \in BOOLEAN : RemoveCallback(h, err)
    \/ ProgressTick

\* The calls that reach getClient before and after the engine module has
\* loaded, and the poll timer.
SpecClient == InitClient /\ [][NextClient]_vars

\* C32: however many calls went through getClient, those that waited for the
\* engine module included, at most one interval timer is running, and a run
\* of its callback emits at most one 'progress' event per transfer.
C32_AtMostOnePollTimer ==
    /\ Cardinality(timers) <= 1
    /\ returned.op = "progressTick" =>
          \A h \in InfoHashes : Cardinality(EventsOf("progress", h)) <= 1

\* Two calls waited in getClient and each has set a timer; the one left runs
\* and reports a transfer.
C32_Witness ==
    /\ clients >= 2
    /\ Cardinality(timers) = 1
    /\ returned.op = "progressTick"
    /\ emitted # << >>


\* C33: whatever calls reach getClient, those that start before the engine
\* module has loaded included, one engine client is made at most, and every
\* torrent added through addTorrent is in the client that the poll timer,
\* pause, resume and remove work on.
C33_SingleEngineClient ==
    /\ clients <= 1
    /\ orphans = << >>


----------------------------------------------------------------------------
(* The list of WebTorrentProvider *)

\* The service with WebTorrentProvider mounted and its initializeClient done:
\* the client exists, the poll timer runs, the list is empty.
InitShown ==
    /\ client = TRUE
    /\ torrents = << >>
    /\ storage = Blob("absent", << >>)
    /\ history = << >>
    /\ pendingRemove = [h \in InfoHashes |-> 0]
    /\ now = StartTime
    /\ emitted = << >>
    /\ progressOut = << >>
    /\ returned = Returned("initializeClient", "", "ready")
    /\ servers = [h \in InfoHashes |-> << >>]
    /\ files = FilesOf
    /\ storageFull = FALSE
    /\ moduleLoaded = TRUE
    /\ waiting = {}
    /\ addCalls = [t \in Targets |-> 0]
    /\ historyKind = "array"
    /\ callers = 0
    /\ listed = {}
    /\ mounted = TRUE
    /\ orphans = << >>
    /\ clients = 1
    /\ progressInterval = 1
    /\ timers = {1}

NextShown ==
    \/ \E m \in Magnets : AddTorrent(m)
    \/ \E i \in 1..Len(torrents) : EngineReady(i)
    \/ \E i \in 1..Len(torrents), e \in ErrorMessages, r \in BOOLEAN : EngineError(i, e, r)
    \/ \E h \in InfoHashes : RemoveTorrent(h)
    \/ \E h \in InfoHashes, err \in BOOLEAN : RemoveCallback(h, err)
    \/ ProgressTick

\* Transfers that come and go while the provider listens.
SpecShown == InitShown /\ [][NextShown]_vars

\* The same, with what the timer and the engine are bound to do: the interval
\* callback keeps running and the engine calls back on a removal.
FairSpecShown ==
    /\ SpecShown
    /\ WF_vars(ProgressTick)
    /\ WF_vars(\E h \in InfoHashes, err \in BOOLEAN : RemoveCallback(h, err))

\* The list of the provider has an entry for a transfer the client does not
\* hold.
Stale(h) == mounted /\ h \in listed /\ Get(torrents, h) = 0

\* C34 (as stated): every departure from the client's torrents, by
\* removeTorrent or by the error handler addTorrent attaches, is announced
\* by a 'removed' event, so that an entry of the provider's list for a
\* transfer that is gone is eventually dropped.
C34_DeparturesAnnounced ==
    \A h \in InfoHashes : Stale(h) ~> ~Stale(h)

\* C35 (as stated): once 'removed' has been emitted for an id, no 'progress'
\* event for that id is emitted until the locator is added again; here for
\* the handler that runs next after the one that emitted 'removed', which
\* is not an addTorrent when it emits 'progress'.
C35_NoProgressAfterRemoved ==
    [][\A h \in InfoHashes :
          EventsOf("removed", h) # {} =>
              \A k \in 1..Len(emitted') : emitted'[k] # Event("progress", h)]_vars


\* C36: a lastError on record stays through every step that keeps a record
\* of the infoHash: it is the same afterwards, or the step was the 'error'
\* handler and it is the new message.  It goes only with the record.
C36_LastErrorIsSticky ==
    [][\A h \in InfoHashes :
          \A i \in RecordsOf(history, h), j \in RecordsOf(history', h) :
              history[i].lastError # "" =>
                  \/ history'[j].lastError = history[i].lastError
                  \/ /\ returned'.op = "torrent.error"
                     /\ history'[j].lastError \in ErrorMessages]_vars

\* C36, witness: the record of a torrent that failed in an earlier session
\* has been through addTorrent and removeTorrent and its last state is
\* 'removed', with the message of that session.
C36_Witness ==
    /\ returned = Returned("removeTorrent", "hashA", "removing")
    /\ \E a \in RecordsOf(history, "hashA") :
            /\ history[a].status = "removed"
            /\ history[a].lastError = "swarm failure"

====
